---- MODULE Spec2Model ----
(***************************************************************************)
(* A model of the toy-assembly interpreter of start.py.                    *)
(*                                                                         *)
(* Text is modelled as a sequence of atoms.  An atom is an indivisible     *)
(* piece of text: a whitespace character, a punctuation mark, a digit, or  *)
(* a word.  A line is a sequence of atoms, a token is a sequence of atoms  *)
(* without whitespace, so that strip, tab removal, the label pattern, the  *)
(* split into tokens, the register pattern, int parsing and printing are   *)
(* all computed rather than assumed.                                       *)
(***************************************************************************)
EXTENDS Integers, Sequences, FiniteSets

\* ------------------------------------------------------------------ bounds
\* Longest raw source drawn from the full vocabulary RawLines.
MaxLines == 3
\* Longest raw source drawn from the control-flow vocabulary CtlLines.
MaxCtlLines == 5
\* Most loop iterations of Interpreter.execute that a run is followed for.
MaxSteps == 9

\* ------------------------------------------------------------------- atoms
Whitespace == {" ", "\t", "\n"}
Digits == <<"0", "1", "2", "3", "4", "5", "6", "7", "8", "9">>
DigitSet == {Digits[i] : i \in 1..Len(Digits)}
\* Atoms made of letters only (each is a run of \w characters).
Letters == {"R", "X", "A", "B", "C", "START", "LET", "IF", "JUMP", "CALL",
            "PRINT", "RETURN", "FOO"}
\* \w of the label pattern and of Python identifiers: letters and digits.
WordAtoms == Letters \cup DigitSet

\* The text of a line from its words: " ".join(words).
RECURSIVE Join(_)
Join(words) ==
    IF words = <<>> THEN <<>>
    ELSE IF Len(words) = 1 THEN words[1]
    ELSE words[1] \o <<" ">> \o Join(Tail(words))

\* --------------------------------------------------------------- the tokens
R0 == <<"R", "0">>
R1 == <<"R", "1">>
R2 == <<"R", "2">>
X9 == <<"X", "9">>
LabelA == <<"A">>
LabelB == <<"B">>
LabelC == <<"C">>
Colon == <<":">>
Plus == <<"+">>
EqEq == <<"==">>
NotEq == <<"!=">>
Less == <<"<">>
Assign == <<":=">>
Num(d) == <<Digits[d + 1]>>
T_LET == <<"LET">>
T_IF == <<"IF">>
T_JUMP == <<"JUMP">>
T_CALL == <<"CALL">>
T_PRINT == <<"PRINT">>
T_RETURN == <<"RETURN">>
T_FOO == <<"FOO">>

\* ------------------------------------------------------- pure text functions
\* str.strip(): drop leading and trailing whitespace.
RECURSIVE lstrip(_)
lstrip(line) ==
    IF line # <<>> /\ Head(line) \in Whitespace THEN lstrip(Tail(line)) ELSE line

RECURSIVE rstrip(_)
rstrip(line) ==
    IF line # <<>> /\ line[Len(line)] \in Whitespace
    THEN rstrip(SubSeq(line, 1, Len(line) - 1))
    ELSE line

strip(line) == rstrip(lstrip(line))

\* str.replace("\t", ""): drop every tab.
RECURSIVE remove_tabs(_)
remove_tabs(line) ==
    IF line = <<>> THEN <<>>
    ELSE IF Head(line) = "\t" THEN remove_tabs(Tail(line))
    ELSE <<Head(line)>> \o remove_tabs(Tail(line))

\* str.rstrip(":"): drop every trailing colon.
RECURSIVE rstrip_colon(_)
rstrip_colon(line) ==
    IF line # <<>> /\ line[Len(line)] = ":"
    THEN rstrip_colon(SubSeq(line, 1, Len(line) - 1))
    ELSE line

\* The index of the first colon of a line, 0 if it has none.
RECURSIVE first_colon(_, _)
first_colon(line, i) ==
    IF i > Len(line) THEN 0
    ELSE IF line[i] = ":" THEN i
    ELSE first_colon(line, i + 1)

\* re.compile(r"^\w+:\s*$").match(line): word characters, one colon, then
\* only whitespace to the end of the line.
pattern_match(line) ==
    LET c == first_colon(line, 1)
    IN  /\ c >= 2
        /\ \A i \in 1..(c - 1) : line[i] \in WordAtoms
        /\ \A i \in (c + 1)..Len(line) : line[i] \in Whitespace

\* prepare_data recording a label under the index it was read at instead of
\* the index it was written at.
RECURSIVE prepare_loop_ReadIndex(_, _, _, _, _)
prepare_loop_ReadIndex(raw, r, w, trimmed_result, labels) ==
    IF ~(r < Len(raw)) THEN [lines |-> trimmed_result, labels_dict |-> labels]
    ELSE LET line == remove_tabs(strip(raw[r + 1]))
         IN  IF line = <<>>
             THEN prepare_loop_ReadIndex(raw, r + 1, w, trimmed_result, labels)
             ELSE prepare_loop_ReadIndex(raw, r + 1, w + 1,
                     Append(trimmed_result, line),
                     IF pattern_match(line)
                     THEN [k \in DOMAIN labels \cup {rstrip_colon(line)} |->
                             IF k = rstrip_colon(line) THEN r ELSE labels[k]]
                     ELSE labels)

\* prepare_data keeping the first index recorded for a label.
RECURSIVE prepare_loop_KeepFirst(_, _, _, _, _)
prepare_loop_KeepFirst(raw, r, w, trimmed_result, labels) ==
    IF ~(r < Len(raw)) THEN [lines |-> trimmed_result, labels_dict |-> labels]
    ELSE LET line == remove_tabs(strip(raw[r + 1]))
         IN  IF line = <<>>
             THEN prepare_loop_KeepFirst(raw, r + 1, w, trimmed_result, labels)
             ELSE prepare_loop_KeepFirst(raw, r + 1, w + 1,
                     Append(trimmed_result, line),
                     IF pattern_match(line)
                     THEN [k \in DOMAIN labels \cup {rstrip_colon(line)} |->
                             IF k \in DOMAIN labels THEN labels[k] ELSE w]
                     ELSE labels)

\* Interpreter.prepare_data, the while loop from read index r and write index w:
\* every raw line is stripped, loses its tabs, is dropped if empty, else is
\* appended; a line that matches the label pattern is recorded under its name
\* with the write index it was appended at.
RECURSIVE prepare_loop(_, _, _, _, _)
prepare_loop(raw, r, w, trimmed_result, labels) ==
    IF ~(r < Len(raw)) THEN [lines |-> trimmed_result, labels_dict |-> labels]
    ELSE LET line == remove_tabs(strip(raw[r + 1]))
         IN  IF line = <<>>
             THEN prepare_loop(raw, r + 1, w, trimmed_result, labels)
             ELSE prepare_loop(raw, r + 1, w + 1, Append(trimmed_result, line),
                     IF pattern_match(line)
                     THEN [k \in DOMAIN labels \cup {rstrip_colon(line)} |->
                             IF k = rstrip_colon(line) THEN w ELSE labels[k]]
                     ELSE labels)

\* prepare_data whose write index is not reset: it goes on from the number of
\* labels recorded so far.
prepare_data_NoReset(raw, labels) ==
    prepare_loop(raw, 0, Cardinality(DOMAIN labels), <<>>, labels)

prepare_data(raw, labels) == prepare_loop(raw, 0, 0, <<>>, labels)

\* Interpreter.tokenize_line: shlex with whitespace_split, on text without
\* quotes or comment characters: the maximal runs of non-whitespace atoms.
RECURSIVE tokenize_loop(_, _, _)
tokenize_loop(line, token, tokens) ==
    IF line = <<>>
    THEN IF token = <<>> THEN tokens ELSE Append(tokens, token)
    ELSE IF Head(line) \in Whitespace
         THEN tokenize_loop(Tail(line), <<>>,
                 IF token = <<>> THEN tokens ELSE Append(tokens, token))
         ELSE tokenize_loop(Tail(line), Append(token, Head(line)), tokens)

tokenize_line(line) == tokenize_loop(line, <<>>, <<>>)

\* str.endswith(":")
endswith_colon(token) == token # <<>> /\ token[Len(token)] = ":"

\* [token for token in tokens[1:] if token not in (" ", ":=")]
RECURSIVE filter_args(_)
filter_args(tokens) ==
    IF tokens = <<>> THEN <<>>
    ELSE IF Head(tokens) \in {<<" ">>, Assign} THEN filter_args(Tail(tokens))
    ELSE <<Head(tokens)>> \o filter_args(Tail(tokens))

\* The names of Interpreter.commands.
commands == {T_LET, T_IF, T_JUMP, T_CALL, T_PRINT, T_RETURN}

\* re.match(r"^R[0-9]$", register)
register_match(token) ==
    Len(token) = 2 /\ token[1] = "R" /\ token[2] \in DigitSet

\* A decimal integer literal of Python: digits, without a leading zero unless
\* it is "0" alone.
is_number(token) ==
    /\ token # <<>>
    /\ \A i \in 1..Len(token) : token[i] \in DigitSet
    /\ (Len(token) = 1 \/ token[1] # "0")

\* A Python identifier: word characters, the first of them not a digit.
is_identifier(token) ==
    /\ token # <<>>
    /\ \A i \in 1..Len(token) : token[i] \in WordAtoms
    /\ token[1] \in Letters

digit_value(d) == CHOOSE v \in 0..9 : Digits[v + 1] = d

\* int(token) of a decimal literal.
RECURSIVE parse_int(_)
parse_int(token) ==
    IF token = <<>> THEN 0
    ELSE 10 * parse_int(SubSeq(token, 1, Len(token) - 1))
           + digit_value(token[Len(token)])

\* str(n) of a natural number.
RECURSIVE str(_)
str(n) ==
    IF n < 10 THEN <<Digits[n + 1]>>
    ELSE str(n \div 10) \o <<Digits[(n % 10) + 1]>>

\* print's text for a register that is not set.
NotFound == <<"Register not found">>

\* dict.get(key, default)
get(dict, key, default) == IF key \in DOMAIN dict THEN dict[key] ELSE default

\* eval(" ".join(expressions), {}, registers), for the expressions
\* "operand" and "operand + operand" where an operand is an integer literal or
\* a name.  The text is compiled first, so a syntax error wins over an unset
\* name; a name is looked up in the registers and nowhere else holds a value.
is_operand(token) == is_number(token) \/ is_identifier(token)

operand_set(regs, token) == is_number(token) \/ token \in DOMAIN regs

operand_value(regs, token) ==
    IF is_number(token) THEN parse_int(token) ELSE regs[token]

\* eval reading an unset name as 0 instead of failing.
eval_DefaultZero(expressions, regs) ==
    IF Len(expressions) = 1 /\ is_operand(expressions[1])
    THEN [err |-> "",
          value |-> IF operand_set(regs, expressions[1])
                    THEN operand_value(regs, expressions[1]) ELSE 0]
    ELSE IF /\ Len(expressions) = 3
            /\ is_operand(expressions[1])
            /\ expressions[2] = Plus
            /\ is_operand(expressions[3])
    THEN [err |-> "",
          value |-> (IF operand_set(regs, expressions[1])
                     THEN operand_value(regs, expressions[1]) ELSE 0)
                  + (IF operand_set(regs, expressions[3])
                     THEN operand_value(regs, expressions[3]) ELSE 0)]
    ELSE [err |-> "SyntaxError", value |-> 0]

eval(expressions, regs) ==
    IF Len(expressions) = 1 /\ is_operand(expressions[1])
    THEN IF operand_set(regs, expressions[1])
         THEN [err |-> "", value |-> operand_value(regs, expressions[1])]
         ELSE [err |-> "NameError", value |-> 0]
    ELSE IF /\ Len(expressions) = 3
            /\ is_operand(expressions[1])
            /\ expressions[2] = Plus
            /\ is_operand(expressions[3])
    THEN IF operand_set(regs, expressions[1]) /\ operand_set(regs, expressions[3])
         THEN [err |-> "",
               value |-> operand_value(regs, expressions[1])
                           + operand_value(regs, expressions[3])]
         ELSE [err |-> "NameError", value |-> 0]
    ELSE [err |-> "SyntaxError", value |-> 0]

\* ------------------------------------------------------------ the sources
Blank == <<"\n">>
Spaces == <<" ", "\t", "\n">>
\* The label line "A:" and its spellings "\tA\t:\n" and " A:  \n".
DeclA == LabelA \o Colon
DeclATabs == <<"\t">> \o LabelA \o <<"\t">> \o Colon \o <<"\n">>
DeclB == LabelB \o Colon \o <<"\n">>

RawLines ==
    { Blank, Spaces, DeclA, DeclATabs,
      Join(<<T_LET, R0, Num(1)>>),
      Join(<<T_LET, R1, Num(0)>>) \o <<"\n">>,
      <<" ">> \o Join(<<T_LET, R1, R0, Plus, Num(1)>>),
      Join(<<T_LET, X9, Num(1)>>),
      Join(<<T_LET, X9, R0>>),
      T_LET \o <<"\t">> \o R0 \o <<" ">> \o Num(1),
      Join(<<T_IF, R0, EqEq, R1, LabelA>>),
      Join(<<T_IF, R0, EqEq, R1, LabelC>>),
      Join(<<T_IF, R0, Assign, R1, LabelA>>),
      Join(<<T_JUMP, LabelA>>),
      Join(<<T_JUMP, LabelC>>),
      Join(<<T_CALL, LabelA>>),
      Join(<<T_CALL, LabelC>>),
      Join(<<T_PRINT, R0>>),
      Join(<<T_PRINT, R1>>) \o <<"\n">>,
      T_RETURN,
      Join(<<T_FOO, R0>>) }

CtlLines ==
    { DeclA, DeclB, Join(<<T_CALL, LabelA>>), Join(<<T_CALL, LabelB>>),
      T_RETURN \o <<"\n">>, Join(<<T_PRINT, R0>>) }

\* Lines for the comparator of IF and for a label named like a command.
EdgeLines ==
    { DeclA,
      Join(<<T_LET, R0, Num(1)>>),
      Join(<<T_PRINT, R0>>),
      T_PRINT \o Colon,
      Join(<<T_IF, R0, EqEq, R1, LabelA>>),
      Join(<<T_IF, R0, NotEq, R1, LabelA>>),
      Join(<<T_IF, R0, Less, R1, LabelA>>),
      Join(<<T_IF, R0, T_FOO, R1, LabelA>>),
      Join(<<T_IF, R0, Assign, R1, LabelA>>) }

\* The example program of the documentation.
ExampleProgram ==
    << <<"START">> \o Colon,
       Join(<<T_LET, R0, Num(1)>>),
       Join(<<T_LET, R1, Num(2)>>),
       Join(<<T_LET, R2, R0, Plus, R1>>),
       Join(<<T_PRINT, R2>>) >>

SeqsUpTo(S, n) == UNION {[1..k -> S] : k \in 0..n}

Programs ==
    SeqsUpTo(RawLines, MaxLines) \cup SeqsUpTo(CtlLines, MaxCtlLines)
      \cup SeqsUpTo(EdgeLines, MaxLines) \cup {ExampleProgram}

\* ------------------------------------------------------------------ state
VARIABLES
    instance,      \* which Interpreter of the process this is: 1 or 2
    file,          \* the lines of the program file, as readlines gives them
    code,          \* Interpreter.code
    labels_dict,   \* Interpreter.labels_dict
    lines,         \* execute's local: the result of prepare_data
    line_number,   \* execute's local: the index fetched next, or NoneVal
    command_args,  \* execute's local: the arguments of the last non-label line
    pc,            \* runtime_state.pc
    registers,     \* runtime_state.registers
    stack,         \* runtime_state.stack
    output,        \* the lines printed on standard output
    status,        \* "created", "running", "done" or "error"
    err,           \* the class of the exception that ended the run, or ""
    trace,         \* history: the indices fetched so far, in order
    calls          \* history: the CALLs dispatched and not yet matched by a
                   \* RETURN, innermost last, each with its index (site) and
                   \* the call stack it found (saved)

vars == <<instance, file, code, labels_dict, lines, line_number, command_args, pc,
          registers, stack, output, status, err, trace, calls>>

\* Python's None as a line number.
NoneVal == -1

\* The empty dict.
EmptyDict == [k \in {} |-> 0]

\* update_register replacing the whole dictionary by the one binding.
update_register_Reset(regs, register, value) ==
    [r \in {register} |-> value]

\* RuntimeState.update_register
update_register(regs, register, value) ==
    [r \in DOMAIN regs \cup {register} |->
        IF r = register THEN value ELSE regs[r]]

\* find_label answering 0 for a key that is not in the dictionary.
find_label_DefaultZero(key) ==
    IF key \in DOMAIN labels_dict
    THEN [err |-> "", value |-> labels_dict[key]]
    ELSE [err |-> "", value |-> 0]

\* Interpreter.find_label: the value stored under key, or a KeyError.
find_label(key) ==
    IF key \in DOMAIN labels_dict
    THEN [err |-> "", value |-> labels_dict[key]]
    ELSE [err |-> "KeyError", value |-> NoneVal]

\* runtime_state.pc as a handler reads it: execute stores the index it fetched
\* (line_number, before its increment) there just before the dispatch.
runtime_pc == line_number

\* What a handler's execute does to the run: the exception it raises ("" for
\* none), the value it returns, and the registers, stack and output it leaves.
Outcome(e, ret, regs, stk, out) ==
    [err |-> e, ret |-> ret, registers |-> regs, stack |-> stk, output |-> out]

Raise(e) == Outcome(e, NoneVal, registers, stack, output)

\* LetCommand.execute without the check of the register name.
LetCommand_NoCheck(args) ==
    IF Len(args) < 1 THEN Raise("TypeError")
    ELSE LET v == eval(Tail(args), registers)
         IN  IF v.err # "" THEN Raise(v.err)
             ELSE Outcome("", runtime_pc + 1,
                     update_register(registers, args[1], v.value), stack, output)

\* LetCommand.execute returning the index after the next one.
LetCommand_SkipNext(args) ==
    IF Len(args) < 1 THEN Raise("TypeError")
    ELSE IF ~register_match(args[1]) THEN Raise("ValueError")
    ELSE LET v == eval(Tail(args), registers)
         IN  IF v.err # "" THEN Raise(v.err)
             ELSE Outcome("", runtime_pc + 2,
                     update_register(registers, args[1], v.value), stack, output)

\* LetCommand.execute(register, *expressions)
LetCommand(args) ==
    IF Len(args) < 1 THEN Raise("TypeError")
    ELSE IF ~register_match(args[1]) THEN Raise("ValueError")
    ELSE LET v == eval(Tail(args), registers)
         IN  IF v.err # "" THEN Raise(v.err)
             ELSE Outcome("", runtime_pc + 1,
                     update_register(registers, args[1], v.value), stack, output)

\* IfCommand.execute with no default for its first operand: an unset register
\* compares as None, equal to no integer.
IfCommand_NoDefault(args) ==
    IF Len(args) # 4 THEN Raise("TypeError")
    ELSE IF \E i \in 1..4 : args[i] = <<>> THEN Raise("ValueError")
    ELSE IF get(registers, args[1], NoneVal) = get(registers, args[3], 0)
    THEN LET l == find_label(args[4])
         IN  IF l.err # "" THEN Raise(l.err)
             ELSE Outcome("", l.value, registers, stack, output)
    ELSE Outcome("", runtime_pc + 1, registers, stack, output)

\* IfCommand.execute(register1, comparison, register2, label)
IfCommand(args) ==
    IF Len(args) # 4 THEN Raise("TypeError")
    ELSE IF \E i \in 1..4 : args[i] = <<>> THEN Raise("ValueError")
    ELSE IF get(registers, args[1], 0) = get(registers, args[3], 0)
    THEN LET l == find_label(args[4])
         IN  IF l.err # "" THEN Raise(l.err)
             ELSE Outcome("", l.value, registers, stack, output)
    ELSE Outcome("", runtime_pc + 1, registers, stack, output)

\* JumpCommand.execute returning the index after the label's own.
JumpCommand_PastLabel(args) ==
    IF Len(args) # 1 THEN Raise("TypeError")
    ELSE IF args[1] = <<>> THEN Raise("ValueError")
    ELSE LET l == find_label(args[1])
         IN  IF l.err # "" THEN Raise(l.err)
             ELSE Outcome("", l.value + 1, registers, stack, output)

\* JumpCommand.execute(label)
JumpCommand(args) ==
    IF Len(args) # 1 THEN Raise("TypeError")
    ELSE IF args[1] = <<>> THEN Raise("ValueError")
    ELSE LET l == find_label(args[1])
         IN  IF l.err # "" THEN Raise(l.err)
             ELSE Outcome("", l.value, registers, stack, output)

\* CallCommand.execute saving its own index instead of the one after it.
CallCommand_PushPc(args) ==
    LET j == JumpCommand(args)
    IN  IF j.err # "" THEN j
        ELSE Outcome("", j.ret, registers, Append(stack, runtime_pc), output)

\* CallCommand.execute pushing the return address before it resolves the label.
CallCommand_PushFirst(args) ==
    LET j == JumpCommand(args)
    IN  Outcome(j.err, j.ret, registers, Append(stack, runtime_pc + 1), output)

\* CallCommand.execute(label): JumpCommand.execute, then the push of runtime_pc + 1.
CallCommand(args) ==
    LET j == JumpCommand(args)
    IN  IF j.err # "" THEN j
        ELSE Outcome("", j.ret, registers, Append(stack, runtime_pc + 1), output)

\* PrintCommand.execute printing the register's name instead of its value.
PrintCommand_Key(args) ==
    IF Len(args) # 1 THEN Raise("TypeError")
    ELSE IF args[1] = <<>> THEN Raise("ValueError")
    ELSE Outcome("", runtime_pc + 1, registers, stack,
            Append(output, args[1]))

\* PrintCommand.execute(register)
PrintCommand(args) ==
    IF Len(args) # 1 THEN Raise("TypeError")
    ELSE IF args[1] = <<>> THEN Raise("ValueError")
    ELSE Outcome("", runtime_pc + 1, registers, stack,
            Append(output, IF args[1] \in DOMAIN registers
                           THEN str(registers[args[1]]) ELSE NotFound))

\* ReturnCommand.execute reading the top of the stack without removing it.
ReturnCommand_NoPop(args) ==
    IF Len(args) # 0 THEN Raise("TypeError")
    ELSE IF Len(stack) > 0
    THEN Outcome("", stack[Len(stack)], registers, stack, output)
    ELSE Outcome("", NoneVal, registers, stack, output)

\* ReturnCommand.execute()
ReturnCommand(args) ==
    IF Len(args) # 0 THEN Raise("TypeError")
    ELSE IF Len(stack) > 0
    THEN Outcome("", stack[Len(stack)], registers,
            SubSeq(stack, 1, Len(stack) - 1), output)
    ELSE Outcome("", NoneVal, registers, stack, output)

\* --------------------------------------------------------------- the run
Init ==
    /\ instance = 1
    /\ file \in Programs
    /\ code = <<>>
    /\ labels_dict = EmptyDict
    /\ lines = <<>>
    /\ line_number = 0
    /\ command_args = <<>>
    /\ pc = 0
    /\ registers = EmptyDict
    /\ stack = <<>>
    /\ output = <<>>
    /\ status = "created"
    /\ err = ""
    /\ trace = <<>>
    /\ calls = <<>>

\* Interpreter.execute up to its loop: read_file_and_store, prepare_data,
\* line_number = 0.
Start ==
    /\ status = "created"
    /\ code' = file
    /\ LET p == prepare_data(file, labels_dict)
       IN  /\ lines' = p.lines
           /\ labels_dict' = p.labels_dict
    /\ line_number' = 0
    /\ status' = "running"
    /\ UNCHANGED <<instance, file, command_args, pc, registers, stack,
                   output, err, trace, calls>>

\* The loop's test passes and another line is fetched.
Fetching ==
    /\ status = "running"
    /\ line_number # NoneVal
    /\ line_number < Len(lines)
    /\ Len(trace) < MaxSteps

\* line, tokens and command_name of the iteration that starts now.
line == lines[line_number + 1]
tokens == tokenize_line(line)

\* command_name with the trailing colon of the first token removed.
command_name_StripColon == rstrip_colon(tokens[1])

command_name == tokens[1]

\* command_args after the iteration's refresh: a line whose first token ends
\* with a colon leaves the list of the previous iteration in place.
fresh_args ==
    IF ~endswith_colon(command_name) THEN filter_args(Tail(tokens))
    ELSE command_args

\* One iteration that swallows the handler's exception and goes on with the
\* next line.
Iterate_Swallow(o) ==
    /\ pc' = line_number
    /\ command_args' = fresh_args
    /\ trace' = Append(trace, line_number)
    /\ registers' = o.registers
    /\ stack' = o.stack
    /\ output' = o.output
    /\ line_number' = IF o.err # "" THEN line_number + 1 ELSE o.ret
    /\ UNCHANGED <<status, err>>
    /\ UNCHANGED <<instance, file, code, labels_dict, lines>>

\* One iteration whose handler call has the outcome o: the pointer is stored,
\* then the handler's effects, then its return value becomes line_number; an
\* exception leaves line_number at its increment and ends the run.
Iterate(o) ==
    /\ pc' = line_number
    /\ command_args' = fresh_args
    /\ trace' = Append(trace, line_number)
    /\ registers' = o.registers
    /\ stack' = o.stack
    /\ output' = o.output
    /\ IF o.err # ""
       THEN /\ status' = "error"
            /\ err' = o.err
            /\ line_number' = line_number + 1
       ELSE /\ line_number' = o.ret
            /\ UNCHANGED <<status, err>>
    /\ UNCHANGED <<instance, file, code, labels_dict, lines>>

\* An iteration without dispatch that loses the increment of line_number.
NoDispatch_Stuck == Outcome("", line_number, registers, stack, output)

\* An iteration that calls no handler: line_number keeps its increment.
NoDispatch == Outcome("", line_number + 1, registers, stack, output)

\* A line whose first token ends with a colon.
SkipLabel ==
    /\ Fetching
    /\ endswith_colon(command_name)
    /\ command_name \notin commands
    /\ Iterate(NoDispatch)
    /\ UNCHANGED calls

\* Any other line whose first token is no command name.
SkipUnknown ==
    /\ Fetching
    /\ ~endswith_colon(command_name)
    /\ command_name \notin commands
    /\ Iterate(NoDispatch)
    /\ UNCHANGED calls

DoLet ==
    /\ Fetching
    /\ command_name = T_LET
    /\ Iterate(LetCommand(fresh_args))
    /\ UNCHANGED calls

DoIf ==
    /\ Fetching
    /\ command_name = T_IF
    /\ Iterate(IfCommand(fresh_args))
    /\ UNCHANGED calls

DoJump ==
    /\ Fetching
    /\ command_name = T_JUMP
    /\ Iterate(JumpCommand(fresh_args))
    /\ UNCHANGED calls

DoCall ==
    /\ Fetching
    /\ command_name = T_CALL
    /\ Iterate(CallCommand(fresh_args))
    /\ calls' = IF CallCommand(fresh_args).err = ""
                THEN Append(calls, [site |-> line_number, saved |-> stack])
                ELSE calls

DoPrint ==
    /\ Fetching
    /\ command_name = T_PRINT
    /\ Iterate(PrintCommand(fresh_args))
    /\ UNCHANGED calls

DoReturn ==
    /\ Fetching
    /\ command_name = T_RETURN
    /\ Iterate(ReturnCommand(fresh_args))
    /\ calls' = IF ReturnCommand(fresh_args).err = "" /\ calls # <<>>
                THEN SubSeq(calls, 1, Len(calls) - 1)
                ELSE calls

\* The loop's test fails: execute returns.
Halt ==
    /\ status = "running"
    /\ line_number # NoneVal
    /\ ~(line_number < Len(lines))
    /\ status' = "done"
    /\ UNCHANGED <<instance, file, code, labels_dict, lines, line_number,
                   command_args, pc, registers, stack, output, err, trace,
                   calls>>

\* The loop's test compares None with an int: a TypeError.
LoopTypeError ==
    /\ status = "running"
    /\ line_number = NoneVal
    /\ status' = "error"
    /\ err' = "TypeError"
    /\ UNCHANGED <<instance, file, code, labels_dict, lines, line_number,
                   command_args, pc, registers, stack, output, trace, calls>>

Next ==
    \/ Start
    \/ SkipLabel
    \/ SkipUnknown
    \/ DoLet
    \/ DoIf
    \/ DoJump
    \/ DoCall
    \/ DoPrint
    \/ DoReturn
    \/ Halt
    \/ LoopTypeError

Spec == Init /\ [][Next]_vars

\* ------------------------------------------------------------- properties
\* The command name of the line at index i of the normalized sequence.
NameAt(i) == tokenize_line(lines[i + 1])[1]

\* The value of a register as a comparison reads it: 0 when it is not set.
RegValue(r) == IF r \in DOMAIN registers THEN registers[r] ELSE 0

\* The iteration that starts now dispatches RETURN.
ReturnDispatched ==
    Fetching /\ command_name = T_RETURN /\ Len(fresh_args) = 0

\* C1: call/return round trip.  When a RETURN is dispatched and a CALL is
\* still unmatched, the innermost of them (the one this RETURN matches, at
\* index site) decides the outcome: the pointer adopted is site + 1 and the
\* call stack is again the one that CALL found, at every nesting depth.
C1_CallReturnRoundTrip ==
    [][ (ReturnDispatched /\ calls # <<>>) =>
            /\ line_number' = calls[Len(calls)].site + 1
            /\ stack' = calls[Len(calls)].saved
            /\ status' = "running" ]_vars

\* A RETURN has just matched the inner of two nested CALLs: the outer one is
\* still open, and the pointer is the line after the inner CALL.
C1_Witness ==
    /\ status = "running"
    /\ trace # <<>>
    /\ NameAt(pc) = T_RETURN
    /\ Len(calls) = 1
    /\ stack = <<calls[1].site + 1>>
    /\ line_number >= 1
    /\ NameAt(line_number - 1) = T_CALL
    /\ line_number - 1 # calls[1].site

\* The iteration that starts now dispatches an IF with four arguments whose
\* label is declared.
IfDeclared ==
    /\ Fetching
    /\ command_name = T_IF
    /\ Len(fresh_args) = 4
    /\ fresh_args[4] \in DOMAIN labels_dict

\* C2: branch correctness.  An IF at index i with a declared label L adopts
\* the Label Table entry of L when its two registers compare equal (an unset
\* register counting as 0) and i + 1 when they do not; registers and call
\* stack are unchanged either way.
C2_BranchCorrectness ==
    [][ IfDeclared =>
            /\ line_number' =
                 IF RegValue(fresh_args[1]) = RegValue(fresh_args[3])
                 THEN labels_dict[fresh_args[4]]
                 ELSE line_number + 1
            /\ registers' = registers
            /\ stack' = stack
            /\ status' = "running" ]_vars

\* An IF has just branched backwards because an unset register equals a
\* register holding 0.
C2_Witness ==
    /\ status = "running"
    /\ trace # <<>>
    /\ NameAt(pc) = T_IF
    /\ R0 \notin DOMAIN registers
    /\ R1 \in DOMAIN registers
    /\ registers[R1] = 0
    /\ line_number = labels_dict[LabelA]
    /\ line_number < pc

\* A raw line that holds nothing but whitespace.
IsBlankRaw(raw) == \A i \in 1..Len(raw) : raw[i] \in Whitespace

\* The text a raw line is kept as.
Normalized(raw) == remove_tabs(strip(raw))

\* Raw line number r (from 1) of the file declares a label.
IsDecl(r) == pattern_match(Normalized(file[r]))
DeclName(r) == rstrip_colon(Normalized(file[r]))

\* The index, in the normalized sequence, of raw line r: the number of
\* non-blank raw lines before it.
KeptBefore(r) == Cardinality({k \in 1..(r - 1) : ~IsBlankRaw(file[k])})

\* The first non-blank raw line after raw line r, 0 if there is none.
NextKept(r) ==
    IF \E k \in (r + 1)..Len(file) : ~IsBlankRaw(file[k])
    THEN CHOOSE k \in (r + 1)..Len(file) :
            /\ ~IsBlankRaw(file[k])
            /\ \A j \in (r + 1)..(k - 1) : IsBlankRaw(file[j])
    ELSE 0

\* Raw line r declares a label, the next kept line is an instruction X, and
\* no later line declares the same label again.
DeclThenInstruction(r) ==
    /\ IsDecl(r)
    /\ NextKept(r) # 0
    /\ ~IsDecl(NextKept(r))
    /\ \A k \in (r + 1)..Len(file) : IsDecl(k) => DeclName(k) # DeclName(r)

C4_ReturnOnEmptyStackNoError ==
    ( /\ trace # <<>>
      /\ NameAt(pc) = T_RETURN
      /\ Len(tokenize_line(lines[pc + 1])) = 1
      /\ stack = <<>> ) => status # "error"

\* The line at index i is neither a label line nor a command.
IsUnknownAt(i) == ~endswith_colon(NameAt(i)) /\ NameAt(i) \notin commands

\* C5 as stated: once a line with an unknown command name was fetched, no
\* later line is dispatched to a handler.
C5_UnknownOpcodeHalts ==
    \A k \in 1..Len(trace) : \A m \in (k + 1)..Len(trace) :
        IsUnknownAt(trace[k]) => NameAt(trace[m]) \notin commands

\* The iteration that starts now fetches a line with an unknown command name.
UnknownFetched ==
    Fetching /\ ~endswith_colon(command_name) /\ command_name \notin commands

\* C5 as amended: a line with an unknown command name is skipped: no handler
\* runs, registers, call stack and output are unchanged by the iteration, the
\* pointer advances by exactly one and the run goes on.
C5_UnknownOpcodeSkipped ==
    [][ UnknownFetched =>
            /\ line_number' = line_number + 1
            /\ status' = "running"
            /\ registers' = registers
            /\ stack' = stack
            /\ output' = output ]_vars

\* A PRINT has been dispatched after a line with an unknown command name.
C5_Witness ==
    /\ Len(trace) >= 2
    /\ IsUnknownAt(trace[1])
    /\ NameAt(pc) = T_PRINT
    /\ pc = trace[1] + 1
    /\ output # <<>>

\* The ten register names R0..R9.
RegisterNames == {<<"R", Digits[i]>> : i \in 1..10}

\* The iteration that starts now dispatches JUMP or CALL with one argument, or
\* IF with four, and the label argument is not a key of the Label Table.
JumpLabelMissing ==
    /\ Fetching
    /\ command_name \in {T_JUMP, T_CALL}
    /\ Len(fresh_args) = 1
    /\ fresh_args[1] \notin DOMAIN labels_dict
IfLabelMissing ==
    /\ Fetching
    /\ command_name = T_IF
    /\ Len(fresh_args) = 4
    /\ fresh_args[4] \notin DOMAIN labels_dict

\* The step ends the run with the exception e and changes nothing else.
AbortsWith(e) ==
    /\ status' = "error"
    /\ err' = e
    /\ registers' = registers
    /\ stack' = stack
    /\ output' = output

\* C6 as stated: an IF, JUMP or CALL whose label is not in the Label Table
\* aborts the run with a label-not-found error, whatever the registers hold.
C6_MissingLabelAlwaysFails ==
    [][ (JumpLabelMissing \/ IfLabelMissing) => AbortsWith("KeyError") ]_vars

\* C6 as amended: a JUMP or CALL whose label is not in the Label Table, and an
\* IF with such a label whose two registers compare equal, abort the run with
\* a label-not-found error; an IF whose registers differ does not resolve its
\* label and falls through to the next line.
C6_MissingLabelFailsWhenResolved ==
    [][ /\ JumpLabelMissing => AbortsWith("KeyError")
        /\ IfLabelMissing =>
             IF RegValue(fresh_args[1]) = RegValue(fresh_args[3])
             THEN AbortsWith("KeyError")
             ELSE /\ status' = "running"
                  /\ line_number' = line_number + 1 ]_vars

\* An IF with an undeclared label and different registers has fallen through.
C6_Witness ==
    /\ status = "running"
    /\ trace # <<>>
    /\ NameAt(pc) = T_IF
    /\ tokenize_line(lines[pc + 1])[5] \notin DOMAIN labels_dict
    /\ line_number = pc + 1

\* The iteration that starts now dispatches LET with a target that is none of
\* R0..R9.
LetBadTarget ==
    /\ Fetching
    /\ command_name = T_LET
    /\ Len(fresh_args) >= 1
    /\ fresh_args[1] \notin RegisterNames

\* C7: a LET whose target is not one of R0..R9 aborts the run with an
\* invalid-register error before the expression is evaluated (so the error is
\* this one even when the expression names an unset register), stores nothing,
\* and no step follows the abort.
C7_InvalidRegisterAborts ==
    [][ /\ LetBadTarget => AbortsWith("ValueError")
        /\ status # "error" ]_vars

\* "LET X9 R0" has aborted with the invalid-register error while R0 is unset
\* and another register is set.
C7_Witness ==
    /\ status = "error"
    /\ err = "ValueError"
    /\ lines[pc + 1] = Join(<<T_LET, X9, R0>>)
    /\ R0 \notin DOMAIN registers
    /\ R1 \in DOMAIN registers

\* The iterations that read a register that is not set: an IF with four
\* arguments, a PRINT with one, a LET with a valid target whose expression
\* names one of R0..R9.
IfReadsUnset ==
    /\ Fetching
    /\ command_name = T_IF
    /\ Len(fresh_args) = 4
    /\ {fresh_args[1], fresh_args[3]} \ DOMAIN registers # {}
PrintReadsUnset ==
    /\ Fetching
    /\ command_name = T_PRINT
    /\ Len(fresh_args) = 1
    /\ fresh_args[1] \notin DOMAIN registers
LetReadsUnset ==
    /\ Fetching
    /\ command_name = T_LET
    /\ Len(fresh_args) >= 2
    /\ fresh_args[1] \in RegisterNames
    /\ \E i \in 2..Len(fresh_args) :
            fresh_args[i] \in RegisterNames \ DOMAIN registers

\* What IF and PRINT do with an unset register: IF compares it as 0, PRINT
\* writes the sentinel; neither fails because of it.
UnsetDefaults ==
    /\ IfReadsUnset =>
         IF RegValue(fresh_args[1]) # RegValue(fresh_args[3])
         THEN status' = "running" /\ line_number' = line_number + 1
         ELSE IF fresh_args[4] \in DOMAIN labels_dict
         THEN status' = "running" /\ line_number' = labels_dict[fresh_args[4]]
         ELSE AbortsWith("KeyError")
    /\ PrintReadsUnset =>
         /\ status' = "running"
         /\ output' = Append(output, NotFound)

\* C8 as stated: every opcode that reads an unset register gets a default: IF
\* reads 0, PRINT writes the sentinel, and a LET whose expression names an
\* unset register does not abort the run.
C8_UnsetRegisterNeverFails ==
    [][ UnsetDefaults /\ (LetReadsUnset => status' # "error") ]_vars

\* C8 as amended: IF reads an unset register as 0 and PRINT writes the
\* sentinel, but a LET whose expression reads an unset register aborts the run
\* with a NameError and stores nothing.
C8_UnsetRegisterFailsOnlyInLet ==
    [][ UnsetDefaults /\ (LetReadsUnset => AbortsWith("NameError")) ]_vars

\* A LET has aborted on an unset register of its expression, after another
\* register was assigned.
C8_Witness ==
    /\ status = "error"
    /\ err = "NameError"
    /\ NameAt(pc) = T_LET
    /\ registers # EmptyDict

\* The registers after the LETs of the lines from index i on, applied in
\* source order to regs; ok is FALSE when a line is none of a label
\* declaration, a PRINT of one register, or a LET of a register R0..R9 with an
\* expression that evaluates.
RECURSIVE HandEval(_, _, _)
HandEval(ls, i, regs) ==
    IF i > Len(ls) THEN [ok |-> TRUE, regs |-> regs]
    ELSE LET t == tokenize_line(ls[i])
             a == filter_args(Tail(t))
         IN  IF pattern_match(ls[i]) THEN HandEval(ls, i + 1, regs)
             ELSE IF t[1] = T_PRINT /\ Len(a) = 1
             THEN HandEval(ls, i + 1, regs)
             ELSE IF /\ t[1] = T_LET
                     /\ Len(a) >= 2
                     /\ a[1] \in RegisterNames
                     /\ eval(Tail(a), regs).err = ""
             THEN HandEval(ls, i + 1,
                     [r \in DOMAIN regs \cup {a[1]} |->
                         IF r = a[1] THEN eval(Tail(a), regs).value
                         ELSE regs[r]])
             ELSE [ok |-> FALSE, regs |-> regs]

\* C9: a well-formed program of LET, PRINT and label lines only runs to its
\* end: it never fails, the k-th line fetched is line k - 1 (every line once,
\* in source order), so that the pointer is the number of lines fetched and
\* the run is over after Len(lines) iterations; until then the loop can go on
\* (it fetches the next line, every fetched line having its iteration, or its
\* test ends it); and when it is done every line was fetched and the
\* registers are those of the LETs applied in source order.
C9_StraightLineProgram ==
    LET h == HandEval(lines, 1, EmptyDict)
    IN  (status # "created" /\ h.ok) =>
            /\ status # "error"
            /\ \A k \in 1..Len(trace) : trace[k] = k - 1
            /\ status = "running" =>
                  /\ line_number = Len(trace)
                  /\ line_number <= Len(lines)
                  /\ Fetching \/ ENABLED Halt
            /\ status = "done" =>
                  (Len(trace) = Len(lines) /\ registers = h.regs)

\* The program LET R0 1, LET R1 R0 + 1, PRINT R1 is done.
C9_Witness ==
    /\ status = "done"
    /\ HandEval(lines, 1, EmptyDict).ok
    /\ Len(lines) = 3
    /\ registers = [r \in {R0, R1} |-> IF r = R0 THEN 1 ELSE 2]
    /\ output = <<str(2)>>

\* C10: only LET writes the Register Store.  An iteration that dispatches LET
\* leaves every register but its target as it was (set or unset); every other
\* step leaves all of them as they were.
C10_OnlyLetWritesRegisters ==
    [][ IF Fetching /\ command_name = T_LET /\ Len(fresh_args) >= 1
        THEN \A r \in (DOMAIN registers \cup DOMAIN registers')
                        \ {fresh_args[1]} :
                /\ r \in DOMAIN registers
                /\ r \in DOMAIN registers'
                /\ registers'[r] = registers[r]
        ELSE registers' = registers ]_vars

\* LET R1 R0 + 1 has stored 2 into R1 and left R0 at 1.
C10_Witness ==
    /\ status = "running"
    /\ trace # <<>>
    /\ lines[pc + 1] = Join(<<T_LET, R1, R0, Plus, Num(1)>>)
    /\ DOMAIN registers = {R0, R1}
    /\ registers[R0] = 1
    /\ registers[R1] = 2

\* What the handler of the line fetched now does, for a line whose command
\* name is one of the six.
DispatchOutcome ==
    CASE command_name = T_LET -> LetCommand(fresh_args)
      [] command_name = T_IF -> IfCommand(fresh_args)
      [] command_name = T_JUMP -> JumpCommand(fresh_args)
      [] command_name = T_CALL -> CallCommand(fresh_args)
      [] command_name = T_PRINT -> PrintCommand(fresh_args)
      [] command_name = T_RETURN -> ReturnCommand(fresh_args)

\* C11: an error raised while an instruction is dispatched halts the run
\* without rollback: the step that raises it ends the run in the error state
\* with the registers and the output exactly as the earlier instructions left
\* them, and no step follows a run that has ended in an error.
C11_ErrorHaltsWithoutRollback ==
    [][ /\ status # "error"
        /\ (Fetching /\ command_name \in commands /\ DispatchOutcome.err # "")
             => /\ status' = "error"
                /\ err' = DispatchOutcome.err
                /\ registers' = registers
                /\ output' = output ]_vars

\* A JUMP to an undeclared label has aborted the run after a LET and a PRINT:
\* the register and the printed line are still there.
C11_Witness ==
    /\ status = "error"
    /\ err = "KeyError"
    /\ NameAt(pc) = T_JUMP
    /\ registers = [r \in {R0} |-> 1]
    /\ output = <<str(1)>>

\* The line fetched now is an IF line of five tokens: IF, two registers with a
\* comparator token between them, and a label.
IfLineFetched == Fetching /\ tokens[1] = T_IF /\ Len(tokens) = 5

\* What the same IF line does when its comparator token is ==.
IfWithEqEq == IfCommand(<<tokens[2], EqEq, tokens[4], tokens[5]>>)

\* The step taken has the outcome o: the same error or none, and the same
\* next line.
SameOutcome(o) ==
    /\ status' = (IF o.err # "" THEN "error" ELSE "running")
    /\ err' = o.err
    /\ o.err = "" => line_number' = o.ret

\* C12: the comparator token of IF is ignored: whatever token stands between
\* the two registers of an IF line, the line is accepted and the step has the
\* outcome (next line, error or no error) it has with ==.
C12_ComparatorIgnored ==
    [][ IfLineFetched => SameOutcome(IfWithEqEq) ]_vars

\* ---------------------------------------------------------------------
\* Two Interpreter instances in one process, run one after the other.

\* Lines of the first program: one line for every kind of iteration.
RunLines ==
    { DeclA,
      Join(<<T_LET, R0, Num(1)>>),
      Join(<<T_PRINT, R0>>),
      Join(<<T_IF, R0, EqEq, R1, LabelA>>),
      Join(<<T_JUMP, LabelA>>),
      Join(<<T_CALL, LabelA>>),
      T_RETURN,
      Join(<<T_FOO, R0>>) }

\* Programs of the second instance: each reads what a fresh run has not set.
SecondPrograms ==
    { <<Join(<<T_PRINT, R0>>)>>,
      <<T_RETURN, Join(<<T_PRINT, R0>>)>>,
      <<Join(<<T_LET, R1, R0>>)>> }

Init2 ==
    /\ instance = 1
    /\ file \in SeqsUpTo(RunLines, MaxLines)
    /\ code = <<>>
    /\ labels_dict = EmptyDict
    /\ lines = <<>>
    /\ line_number = 0
    /\ command_args = <<>>
    /\ pc = 0
    /\ registers = EmptyDict
    /\ stack = <<>>
    /\ output = <<>>
    /\ status = "created"
    /\ err = ""
    /\ trace = <<>>
    /\ calls = <<>>

\* Interpreter(file_path) for a second instance, after the run of the first
\* has ended: the instance has its own code and labels_dict, and execute its
\* own locals, while runtime_state is the one object of the module.
NewInterpreter ==
    /\ instance = 1
    /\ status \in {"done", "error"}
    /\ instance' = 2
    /\ file' \in SecondPrograms
    /\ code' = <<>>
    /\ labels_dict' = EmptyDict
    /\ lines' = <<>>
    /\ line_number' = 0
    /\ command_args' = <<>>
    /\ status' = "created"
    /\ err' = ""
    /\ trace' = <<>>
    /\ calls' = <<>>
    /\ UNCHANGED <<pc, registers, stack, output>>

Next2 ==
    \/ Next
    \/ NewInterpreter

Spec2 == Init2 /\ [][Next2]_vars

\* C13: Interpreter instances do not share execution state: the run of a
\* second instance starts with no register assigned and an empty call stack,
\* whatever the run of the first instance did.
C13_SecondRunStartsFresh ==
    (instance = 2 /\ status = "running" /\ trace = <<>>)
        => (registers = EmptyDict /\ stack = <<>>)

\* ---------------------------------------------------------------------
\* C14: preprocessing is idempotent: once prepare_data has run on an
\* Interpreter, running it again on the same raw lines of that Interpreter,
\* with the Label Table the first run left, returns the same Normalized
\* Instruction Sequence and leaves the Label Table as it was.
C14_PrepareDataIdempotent ==
    status # "created"
        => prepare_data(code, labels_dict)
             = [lines |-> lines, labels_dict |-> labels_dict]

\* The first run dropped a blank line and recorded a label behind an
\* instruction.
C14_Witness ==
    /\ status # "created"
    /\ Len(lines) < Len(code)
    /\ LabelA \in DOMAIN labels_dict
    /\ labels_dict[LabelA] = 1

\* C15: the example program START:, LET R0 1, LET R1 2, LET R2 R0 + R1,
\* PRINT R2, run from the initial state, never fails, fetches its five lines
\* in order and then ends, and when it has ended the output is exactly the one
\* value 3, the registers are R0 = 1, R1 = 2, R2 = 3 and the call stack is
\* empty.
C15_ExampleScenario ==
    file = ExampleProgram =>
        /\ status # "error"
        /\ status = "running" =>
              /\ line_number = Len(trace)
              /\ line_number <= Len(ExampleProgram)
              /\ Fetching \/ ENABLED Halt
        /\ status = "done" =>
              /\ output = <<str(3)>>
              /\ registers = [r \in {R0, R1, R2} |->
                                IF r = R0 THEN 1 ELSE IF r = R1 THEN 2 ELSE 3]
              /\ stack = <<>>

\* The example program has ended.
C15_Witness ==
    /\ file = ExampleProgram
    /\ status = "done"
    /\ Len(trace) = 5
    /\ output # <<>>

\* ---------------------------------------------------------------------
\* Line i (from 0) of the normalized sequence is a label line: its first
\* token ends with a colon.
IsLabelLine(i) ==
    LET t == tokenize_line(lines[i + 1])[1] IN t[Len(t)] = ":"

\* The names declared in the normalized sequence, and the index of the last
\* declaration of a name.
DeclaredNames ==
    { rstrip_colon(lines[i]) : i \in {k \in 1..Len(lines) : pattern_match(lines[k])} }
LastDecl(L) ==
    CHOOSE i \in 0..(Len(lines) - 1) :
        /\ lines[i + 1] = L \o Colon
        /\ \A j \in (i + 1)..(Len(lines) - 1) : lines[j + 1] # L \o Colon

\* The first index from d on that holds no label line, Len(lines) if none.
FirstReal(d) ==
    IF \E t \in d..(Len(lines) - 1) : ~IsLabelLine(t)
    THEN CHOOSE t \in d..(Len(lines) - 1) :
            /\ ~IsLabelLine(t)
            /\ \A u \in d..(t - 1) : IsLabelLine(u)
    ELSE Len(lines)

\* Line i is JUMP L, CALL L or an IF with label L.
IsJumpLine(i, L) ==
    LET tk == tokenize_line(lines[i + 1])
    IN  \/ tk[1] \in {T_JUMP, T_CALL} /\ Len(tk) = 2 /\ tk[2] = L
        \/ tk[1] = T_IF /\ Len(tk) = 5 /\ tk[3] # Assign /\ tk[5] = L

\* The line fetched now is JUMP L, CALL L or an IF with label L whose two
\* registers are equal.
TakesJumpTo(L) ==
    /\ Fetching
    /\ IsJumpLine(line_number, L)
    /\ tokens[1] = T_IF => RegValue(tokens[2]) = RegValue(tokens[4])

\* A jump to a declared label makes the last declaration of the label the
\* next line fetched.
Landing ==
    \A L \in DeclaredNames :
        TakesJumpTo(L) => (line_number' = LastDecl(L) /\ status' = "running")

\* After a label line at index d is fetched, the lines fetched next are
\* d + 1, d + 2, ... up to the first line that is no label line; if there is
\* none the run ends normally.
AfterLabel ==
    \A j \in 1..Len(trace) :
        IsLabelLine(trace[j]) =>
            LET d == trace[j]
                t == FirstReal(d)
                n == Len(trace) - j
            IN  /\ \A m \in 1..n :
                      (d + m <= t /\ d + m < Len(lines)) => trace[j + m] = d + m
                /\ d + n < t =>
                      /\ err = ""
                      /\ line_number = d + n + 1
                      /\ \/ status = "running"
                         \/ status = "done" /\ line_number = Len(lines)

\* C16 as stated: after JUMP, CALL or a taken IF with a declared label L, the
\* first line after the declaration of L that is no label line, once fetched,
\* is dispatched to the handler of a command.
C16_JumpLandsOnDispatchedLine ==
    \A j \in 1..(Len(trace) - 1) : \A L \in DeclaredNames :
        (IsJumpLine(trace[j], L) /\ trace[j + 1] = LastDecl(L)) =>
            LET t == FirstReal(LastDecl(L))
                p == j + 1 + (t - LastDecl(L))
            IN  (t < Len(lines) /\ p <= Len(trace)) =>
                    (trace[p] = t /\ NameAt(t) \in commands)

\* C16, amended: JUMP, CALL or a taken IF with a declared label L makes the
\* last declaration of L the next line fetched, and from there the label
\* lines are fetched one after the other, without dispatch, up to the first
\* line that is no label line, or to the normal end of the run.
C16_JumpLandsOnFirstNonLabelLine ==
    [][Landing]_vars /\ []AfterLabel

\* A CALL has gone back over two label lines in a row to a PRINT.
C16_Witness ==
    \E j \in 1..(Len(trace) - 3) :
        /\ NameAt(trace[j]) = T_CALL
        /\ trace[j + 1] < trace[j]
        /\ IsLabelLine(trace[j + 1])
        /\ IsLabelLine(trace[j + 2])
        /\ trace[j + 3] = trace[j + 1] + 2
        /\ NameAt(trace[j + 3]) = T_PRINT

\* ---------------------------------------------------------------------
\* C17: label lines are never dispatched: a step that fetches a line whose
\* first token ends with a colon runs no handler: the pointer advances by
\* exactly one, the run goes on, and registers, call stack and output are
\* unchanged; the argument list left by the instruction before is kept and
\* passed to nothing.
C17_LabelLinesNeverDispatched ==
    [][ (Fetching /\ IsLabelLine(line_number)) =>
            /\ line_number' = line_number + 1
            /\ status' = "running"
            /\ err' = err
            /\ registers' = registers
            /\ stack' = stack
            /\ output' = output
            /\ calls' = calls
            /\ command_args' = command_args ]_vars

\* A label line named like a command has just been skipped while the
\* arguments of the instruction before it were still in place.
C17_Witness ==
    /\ status = "running"
    /\ trace # <<>>
    /\ trace[Len(trace)] = pc
    /\ lines[pc + 1] = T_PRINT \o Colon
    /\ command_args = <<R0>>
    /\ line_number = pc + 1

\* ---------------------------------------------------------------------
\* Every value on the call stack is the index of a CALL line plus one.
StackValuesOk ==
    \A k \in 1..Len(stack) :
        /\ stack[k] \in 1..Len(lines)
        /\ NameAt(stack[k] - 1) = T_CALL

\* What a step may do to the call stack.
StackStep ==
    /\ \/ stack' = stack
       \/ Len(stack') = Len(stack) + 1
       \/ Len(stack') = Len(stack) - 1
    /\ Len(stack') = Len(stack) + 1 =>
          /\ Fetching
          /\ tokens[1] = T_CALL
          /\ status' = "running"
          /\ stack' = Append(stack, line_number + 1)
    /\ Len(stack') = Len(stack) - 1 =>
          /\ Fetching
          /\ tokens[1] = T_RETURN
          /\ stack' = SubSeq(stack, 1, Len(stack) - 1)
    /\ (Fetching /\ tokens[1] = T_CALL /\ status' = "running") =>
          Len(stack') = Len(stack) + 1
    /\ (Fetching /\ tokens = <<T_RETURN>> /\ stack # <<>>) =>
          Len(stack') = Len(stack) - 1
    /\ (Fetching /\ tokens[1] \notin {T_CALL, T_RETURN}) => stack' = stack

\* C18: call stack discipline: every value on the call stack is the index of
\* a CALL line of the program plus one, hence in 1..Len(lines); the stack
\* grows, by exactly one element, exactly when a CALL succeeds, shrinks, by
\* exactly its top, exactly when RETURN is dispatched on a non-empty stack,
\* and is unchanged by every other step.
C18_CallStackDiscipline ==
    []StackValuesOk /\ [][StackStep]_vars

\* Two CALL lines have pushed two different return addresses.
C18_Witness ==
    /\ Len(stack) = 2
    /\ stack[1] # stack[2]
    /\ status = "running"

\* ---------------------------------------------------------------------
\* C19: a failing CALL pushes nothing: a CALL whose label is not in the Label
\* Table aborts the run with a KeyError, and every CALL that aborts the run
\* leaves the call stack exactly as it was.
C19_FailingCallPushesNothing ==
    [][ (Fetching /\ tokens[1] = T_CALL) =>
            /\ (Len(tokens) = 2 /\ tokens[2] \notin DOMAIN labels_dict) =>
                   (status' = "error" /\ err' = "KeyError")
            /\ status' = "error" => stack' = stack ]_vars

\* A CALL to an undeclared label has aborted the run inside a subroutine: the
\* return address of the outer CALL is still the whole stack.
C19_Witness ==
    /\ status = "error"
    /\ err = "KeyError"
    /\ NameAt(pc) = T_CALL
    /\ Len(stack) = 1
    /\ stack[1] # pc + 1

\* ---------------------------------------------------------------------
\* Raw line r declares a label that no later raw line declares again.
IsLastDecl(r) ==
    /\ IsDecl(r)
    /\ \A k \in (r + 1)..Len(file) : IsDecl(k) => DeclName(k) # DeclName(r)

\* The Label Table has one entry for every name declared in the source, and
\* the entry is the index of the last line that declares the name.
TableHoldsLast ==
    status # "created" =>
        /\ DOMAIN labels_dict = {DeclName(r) : r \in {k \in 1..Len(file) : IsDecl(k)}}
        /\ \A r \in 1..Len(file) :
              IsLastDecl(r) => labels_dict[DeclName(r)] = KeptBefore(r)

\* The name L is declared on more than one line.
IsDuplicate(L) ==
    Cardinality({i \in 1..Len(lines) : lines[i] = L \o Colon}) > 1

\* A jump to a name declared more than once goes to the last declaration and
\* raises nothing.
JumpToDuplicate ==
    \A L \in DeclaredNames :
        (IsDuplicate(L) /\ TakesJumpTo(L)) =>
            /\ line_number' = LastDecl(L)
            /\ status' = "running"
            /\ err' = ""

\* C20: duplicate label declarations resolve to the last one: the Label Table
\* holds one entry for a name declared on several lines, the index of the
\* last of them, every IF, JUMP or CALL to the name goes there, and no error
\* is raised for the duplicate.
C20_DuplicateLabelsResolveToLast ==
    []TableHoldsLast /\ [][JumpToDuplicate]_vars

\* A JUMP below two declarations of A has gone to the second of them.
C20_Witness ==
    /\ status = "running"
    /\ Len(lines) = 3
    /\ lines[1] = DeclA
    /\ lines[2] = DeclA
    /\ pc = 2
    /\ NameAt(pc) = T_JUMP
    /\ trace # <<>>
    /\ trace[Len(trace)] = pc
    /\ line_number = 1
====
